---- MODULE Spec2Model ----
(***************************************************************************)
(* Model of the template engine of BluePeanits (src/src/templateManager.js *)
(* and its callers in src/src/main.js): the TemplateManager's document     *)
(* (templatesJSON), its array of Template instances (templatesArray), the  *)
(* two persistence sinks, and the operations that create, delete, toggle,  *)
(* rename, re-coordinate, import and composite templates.                  *)
(*                                                                         *)
(* JavaScript strings that the code formats and parses (composite keys,    *)
(* fragment keys, coordinate strings) are sequences of one-character       *)
(* strings, so that split, padStart, startsWith, Number and toString are   *)
(* computed as the code computes them.  JavaScript objects whose key order *)
(* the code iterates (templates, tiles, chunked) are sequences of entries  *)
(* in insertion order.                                                     *)
(***************************************************************************)
EXTENDS Integers, Sequences, FiniteSets, TLC

VARIABLES
    templatesJSON,   \* this.templatesJSON: Null or the loaded document
    templatesArray,  \* this.templatesArray: sequence of Template instances
    gmStore,         \* userscript store, value under 'bmTemplates'
    lsStore,         \* localStorage, value under 'BlueMarbleTemplates'
    assigned,        \* history: sortIDs that createTemplate assigned this session
    importHistory,   \* history: whether every call so far imported one same accepted document
    opsUsed,         \* history: the names of the operations called so far
    call,            \* the operation that completed last, its arguments and outcome
    fallback,        \* what localStorage.setItem did in that operation: "none", "ok", "throws"
    nOps,            \* number of operations completed
    faults,          \* number of failures of the environment so far
    nEdits,          \* number of toggle, rename and re-coordinate operations completed
    inFlight,        \* the asynchronous calls suspended at an await, with their locals
    name             \* this.name: the userscript's name the Manager was constructed with

vars == <<templatesJSON, templatesArray, gmStore, lsStore, assigned, importHistory,
          opsUsed, call, fallback, nOps, faults,
          nEdits, inFlight, name>>

----------------------------------------------------------------------------
(* Bounds of the model *)

MaxOps == 3
MaxFaults == 1
MaxEdits == 1
MaxImageSide == 2

(* Program constants *)

tileSize == 1000
drawMult == 3
MaxTileIndex == 2047

\* A JavaScript value that may be null, undefined or NaN is a sequence of
\* length 0 (null, undefined, NaN) or 1 (the value)
Null == <<>>
None == <<>>
Some(v) == <<v>>

----------------------------------------------------------------------------
(* JavaScript string primitives on sequences of characters *)

Digits == <<"0", "1", "2", "3", "4", "5", "6", "7", "8", "9">>

IsDigit(c) == \E i \in 1..10 : Digits[i] = c

DigitValue(c) == (CHOOSE i \in 1..10 : Digits[i] = c) - 1

RECURSIVE NatToString(_)
NatToString(n) ==
    IF n < 10 THEN <<Digits[n + 1]>>
    ELSE NatToString(n \div 10) \o <<Digits[(n % 10) + 1]>>

\* Number.prototype.toString for the integers the engine handles
NumberToString(n) ==
    IF n < 0 THEN <<"-">> \o NatToString(0 - n)
    ELSE NatToString(n)

RECURSIVE DigitsToNat(_)
DigitsToNat(s) ==
    IF s = <<>> THEN 0
    ELSE DigitsToNat(SubSeq(s, 1, Len(s) - 1)) * 10 + DigitValue(s[Len(s)])

\* Number(string): "" is 0, a run of decimal digits is its value, anything
\* else here is NaN (None); Number(undefined) is NaN
ToNumber(s) ==
    IF s = None THEN None
    ELSE IF \A i \in 1..Len(s[1]) : IsDigit(s[1][i]) THEN Some(DigitsToNat(s[1]))
    ELSE None

RECURSIVE Split(_, _)
\* String.prototype.split with a one-character separator
Split(s, sep) ==
    IF \A i \in 1..Len(s) : s[i] # sep THEN <<s>>
    ELSE LET i == CHOOSE j \in 1..Len(s) :
                      s[j] = sep /\ \A k \in 1..(j - 1) : s[k] # sep
         IN  <<SubSeq(s, 1, i - 1)>> \o Split(SubSeq(s, i + 1, Len(s)), sep)

\* arr[i] of a JavaScript array (0-based): undefined past the end
At(arr, i) == IF i + 1 <= Len(arr) THEN Some(arr[i + 1]) ELSE None

RECURSIVE PadStart(_, _, _)
PadStart(s, n, c) == IF Len(s) >= n THEN s ELSE PadStart(<<c>> \o s, n, c)

StartsWith(s, p) == Len(p) <= Len(s) /\ SubSeq(s, 1, Len(p)) = p

RECURSIVE Join(_, _)
\* Array.prototype.join of an array of numbers
Join(arr, sep) ==
    IF arr = <<>> THEN <<>>
    ELSE IF Len(arr) = 1 THEN NumberToString(arr[1])
    ELSE NumberToString(arr[1]) \o sep \o Join(Tail(arr), sep)

CommaSpace == <<",", " ">>

----------------------------------------------------------------------------
(* Identity: the userscript's name and the current user *)

\* The name of this userscript (GM_info.script.name) as its runs of
\* non-space characters and its whitespace characters
ScriptName == <<"Blue", " ", "Peanits">>
version == "0.81.1"
templatesVersion == "1.0.0"

\* The numeric id of the current user; null until the host reports it
userID == Null

RECURSIVE Concat(_)
Concat(tokens) == IF tokens = <<>> THEN "" ELSE Head(tokens) \o Concat(Tail(tokens))

RECURSIVE RemoveFirst(_, _)
RemoveFirst(tokens, t) ==
    IF tokens = <<>> THEN <<>>
    ELSE IF Head(tokens) = t THEN Tail(tokens)
    ELSE <<Head(tokens)>> \o RemoveFirst(Tail(tokens), t)

IsWhitespace(t) == t \in {" ", "\t", "\n"}

\* name.replace(' ', ''): a string pattern replaces the first occurrence only
ReplaceFirstSpace(tokens) == Concat(RemoveFirst(tokens, " "))

\* name.replace(/\s+/g, ''): every run of whitespace is removed
RemoveWhitespace(tokens) == Concat(SelectSeq(tokens, LAMBDA t : ~IsWhitespace(t)))

\* this.encodingBase; the grave accent, which a TLA+ string cannot hold, is
\* written "grave"
encodingBase ==
    <<"!", "#", "$", "%", "&", "'", "(", ")", "*", "+", ",", "-", ".", "/", "0", "1",
       "2", "3", "4", "5", "6", "7", "8", "9", ":", ";", "<", "=", ">", "?", "@", "A",
       "B", "C", "D", "E", "F", "G", "H", "I", "J", "K", "L", "M", "N", "O", "P", "Q",
       "R", "S", "T", "U", "V", "W", "X", "Y", "Z", "[", "]", "^", "_", "grave", "a", "b",
       "c", "d", "e", "f", "g", "h", "i", "j", "k", "l", "m", "n", "o", "p", "q", "r",
       "s", "t", "u", "v", "w", "x", "y", "z", "{", "|", "}", "~">>

RECURSIVE EncodeDigits(_, _)
EncodeDigits(number, encoding) ==
    IF number = 0 THEN <<>>
    ELSE EncodeDigits(number \div Len(encoding), encoding)
             \o <<encoding[(number % Len(encoding)) + 1]>>

\* numberToEncoded(number, encoding) of ./utils: positional encoding over the
\* alphabet, most significant digit first, 0 is the first character
numberToEncoded(number, encoding) ==
    IF number = 0 THEN <<encoding[1]>> ELSE EncodeDigits(number, encoding)

\* this.userID || 0
UserNumber == IF userID = Null THEN 0 ELSE userID[1]

\* The template literal sortID, space, authorID
CompositeKey(sortID, authorID) == NumberToString(sortID) \o <<" ">> \o authorID

----------------------------------------------------------------------------
(* Pixel Encoder / Chunker (Template.createTemplateTiles) *)

\* A decoded image: rows[y + 1][x + 1] is the colour of pixel (x, y); colour 0
\* is a pixel of alpha 0, every other colour is opaque
ImageWidth(image) == Len(image[1])
ImageHeight(image) == Len(image)
PixelAt(image, x, y) == image[y + 1][x + 1]

\* Global pixel coordinate of source pixel x (or y) for the anchor coords
GlobalX(coords, x) == coords[1] * tileSize + coords[3] + x
GlobalY(coords, y) == coords[2] * tileSize + coords[4] + y

\* Source pixels of non-zero alpha owned by tile (tx, ty)
OwnedPixels(image, coords, tx, ty) ==
    {p \in (0..(ImageWidth(image) - 1)) \X (0..(ImageHeight(image) - 1)) :
        /\ PixelAt(image, p[1], p[2]) # 0
        /\ GlobalX(coords, p[1]) \div tileSize = tx
        /\ GlobalY(coords, p[2]) \div tileSize = ty}

\* Columns (rows) of the image's bounding box that lie in tile column tx (row ty)
SpanX(image, coords, tx) ==
    {x \in 0..(ImageWidth(image) - 1) : GlobalX(coords, x) \div tileSize = tx}
SpanY(image, coords, ty) ==
    {y \in 0..(ImageHeight(image) - 1) : GlobalY(coords, y) \div tileSize = ty}

Min(S) == CHOOSE m \in S : \A n \in S : m <= n

\* Mutant of FragmentKey: the tile indices are not padded
FragmentKey_Unpadded(tx, ty, px, py) ==
    NumberToString(tx) \o <<",">> \o NumberToString(ty) \o <<",">>
        \o NumberToString(px) \o <<",">> \o NumberToString(py)

\* tileX and tileY padded to 4 digits, then pixelX and pixelY, comma-separated
FragmentKey(tx, ty, px, py) ==
    PadStart(NumberToString(tx), 4, "0") \o <<",">>
        \o PadStart(NumberToString(ty), 4, "0") \o <<",">>
        \o NumberToString(px) \o <<",">> \o NumberToString(py)

\* The shredded bitmap of one tile: each logical pixel is the centre cell of
\* a drawMult x drawMult block; every other cell is transparent (not in cells)
ShreddedBitmap(image, coords, tx, ty) ==
    LET xs == SpanX(image, coords, tx)
        ys == SpanY(image, coords, ty)
        x0 == Min(xs)
        y0 == Min(ys)
        center == (drawMult - 1) \div 2
        own == OwnedPixels(image, coords, tx, ty)
        cellOf(p) == <<(p[1] - x0) * drawMult + center, (p[2] - y0) * drawMult + center>>
    IN  [width  |-> Cardinality(xs) * drawMult,
         height |-> Cardinality(ys) * drawMult,
         cells  |-> [c \in {cellOf(p) : p \in own} |->
                        LET p == CHOOSE q \in own : cellOf(q) = c
                        IN  PixelAt(image, p[1], p[2])]]

\* The fragment of tile (tx, ty): its key and its bitmap
Fragment(image, coords, tx, ty) ==
    [key    |-> FragmentKey(tx, ty,
                    GlobalX(coords, Min(SpanX(image, coords, tx))) % tileSize,
                    GlobalY(coords, Min(SpanY(image, coords, ty))) % tileSize),
     bitmap |-> ShreddedBitmap(image, coords, tx, ty)]

\* createTemplateTiles: one fragment per tile that owns a pixel of non-zero
\* alpha, row by row; and the count of those pixels
createTemplateTiles(image, coords) ==
    LET tx0 == GlobalX(coords, 0) \div tileSize
        ty0 == GlobalY(coords, 0) \div tileSize
        nCols == GlobalX(coords, ImageWidth(image) - 1) \div tileSize - tx0 + 1
        nRows == GlobalY(coords, ImageHeight(image) - 1) \div tileSize - ty0 + 1
        tileAt(i) == <<tx0 + ((i - 1) % nCols), ty0 + ((i - 1) \div nCols)>>
        all == [i \in 1..(nCols * nRows) |-> tileAt(i)]
        used == SelectSeq(all, LAMBDA t : OwnedPixels(image, coords, t[1], t[2]) # {})
    IN  [templateTiles   |-> [i \in 1..Len(used) |->
                                 Fragment(image, coords, used[i][1], used[i][2])],
         totalPixelCount |-> Cardinality(
                                 {p \in (0..(ImageWidth(image) - 1)) \X (0..(ImageHeight(image) - 1)) :
                                     PixelAt(image, p[1], p[2]) # 0})]

\* A fragment's bitmap as the document stores it: a base64 PNG.  PNG is
\* lossless, so decoding a well-formed buffer gives the bitmap back; a buffer
\* that is not base64 of an image does not decode
EncodeTile(bitmap) == [png |-> Some(bitmap)]
CorruptTile == [png |-> None]
Decodes(buffer) == buffer.png # None
DecodeTile(buffer) == buffer.png[1]

templateTilesBuffers(tiles) ==
    [i \in 1..Len(tiles) |-> [key |-> tiles[i].key, buffer |-> EncodeTile(tiles[i].bitmap)]]

----------------------------------------------------------------------------
(* Template instances and the document *)

\* new Template({displayName, sortID, authorID, enabled, coords}); enabled
\* defaults to true.  originKey is history: the composite key under which
\* the instance was created or imported
Template(displayName, sortID, authorID, enabled, coords, originKey) ==
    [displayName |-> displayName,
     sortID      |-> sortID,
     authorID    |-> authorID,
     enabled     |-> enabled,
     coords      |-> coords,
     chunked     |-> <<>>,
     pixelCount  |-> 0,
     originKey   |-> originKey]

createJSON ==
    [whoami        |-> Some(ReplaceFirstSpace(name)),
     scriptVersion |-> version,
     schemaVersion |-> templatesVersion,
     templates     |-> Some(<<>>)]

\* if (!this.templatesJSON) {this.templatesJSON = await this.createJSON();}
EnsureJSON(json) == IF json = Null THEN createJSON ELSE json

\* The templates of a document, none when no document is loaded or the
\* document has no templates map
TemplatesOf(json) ==
    IF json = Null THEN <<>>
    ELSE IF json.templates = None THEN <<>>
    ELSE json.templates[1]

\* The document with its templates map replaced
WithTemplates(json, templates) == [json EXCEPT !.templates = Some(templates)]

KeysOf(templates) == {templates[i].key : i \in 1..Len(templates)}

HasKey(templates, key) == \E i \in 1..Len(templates) : templates[i].key = key

EntryOf(templates, key) ==
    templates[CHOOSE i \in 1..Len(templates) : templates[i].key = key]

\* templates[key] = entry: an existing key keeps its place, a new key is last
SetEntry(templates, key, entry) ==
    IF HasKey(templates, key)
    THEN [i \in 1..Len(templates) |->
             IF templates[i].key = key THEN entry ELSE templates[i]]
    ELSE Append(templates, entry)

\* delete templates[key]
DeleteEntry(templates, key) == SelectSeq(templates, LAMBDA e : e.key # key)

\* template.sortID == Number(sortID) && template.authorID === authorID
MatchesKey(template, templateKey) ==
    LET parts == Split(templateKey, " ")
        sortID == ToNumber(At(parts, 0))
        authorID == At(parts, 1)
    IN  /\ sortID # None
        /\ template.sortID = sortID[1]
        /\ authorID # None
        /\ template.authorID = authorID[1]

\* Array.prototype.find: the index of the first match, 0 when there is none
FindTemplate(array, templateKey) ==
    IF \E i \in 1..Len(array) : MatchesKey(array[i], templateKey)
    THEN CHOOSE i \in 1..Len(array) :
             /\ MatchesKey(array[i], templateKey)
             /\ \A j \in 1..(i - 1) : ~MatchesKey(array[j], templateKey)
    ELSE 0

\* JSON.stringify of the document: every value of the document is a string,
\* a number, a boolean or a nested object, which JSON text carries unchanged
Stringify(json) == [text |-> json]

\* #storeTemplates: the value written to GM storage and to localStorage
storeTemplates(json) == Stringify(json)

----------------------------------------------------------------------------
(* Pixel-Count Reconstructor *)

\* Mutant of CenterCount: the first cell of each block is sampled
CenterCount_FirstCells(bmp) ==
    Cardinality({c \in DOMAIN bmp.cells :
                    /\ c[1] % 3 = 0 /\ c[1] < bmp.width
                    /\ c[2] % 3 = 0 /\ c[2] < bmp.height
                    /\ bmp.cells[c] # 0})

\* The centre cells of one bitmap that are not transparent
CenterCount(bmp) ==
    Cardinality({c \in DOMAIN bmp.cells :
                    /\ c[1] % 3 = 1 /\ c[1] < bmp.width
                    /\ c[2] % 3 = 1 /\ c[2] < bmp.height
                    /\ bmp.cells[c] # 0})

RECURSIVE SumCenterCounts(_, _)
SumCenterCounts(tiles, i) ==
    IF i > Len(tiles) THEN 0
    ELSE CenterCount(tiles[i].bitmap) + SumCenterCounts(tiles, i + 1)

computePixelCountFromTiles(tileBitmaps) == SumCenterCounts(tileBitmaps, 1)

----------------------------------------------------------------------------
(* Tile Compositor (drawTemplateOnTile) *)

\* tileCoords[0].toString().padStart(4, '0') + ',' + tileCoords[1]...
TilePrefix(tileCoords) ==
    PadStart(NumberToString(tileCoords[1]), 4, "0") \o <<",">>
        \o PadStart(NumberToString(tileCoords[2]), 4, "0")

\* Mutant of matchingTiles: every fragment of the template counts as lying
\* in the requested tile
matchingTiles_AnyTile(template, prefix) == template.chunked

\* Object.keys(template.chunked).filter(tile => tile.startsWith(tileCoords))
matchingTiles(template, prefix) ==
    SelectSeq(template.chunked, LAMBDA f : StartsWith(f.key, prefix))

RECURSIVE InsertSorted(_, _)
InsertSorted(sorted, t) ==
    IF sorted = <<>> THEN <<t>>
    ELSE IF sorted[Len(sorted)].sortID - t.sortID <= 0 THEN Append(sorted, t)
    ELSE Append(InsertSorted(SubSeq(sorted, 1, Len(sorted) - 1), t), sorted[Len(sorted)])

RECURSIVE SortFrom(_, _, _)
SortFrom(array, i, sorted) ==
    IF i > Len(array) THEN sorted
    ELSE SortFrom(array, i + 1, InsertSorted(sorted, array[i]))

\* Mutant of SortBySortID: the array is drawn in the order it is stored in
SortBySortID_StoredOrder(array) == array

\* Mutant of SortBySortID: the sorted array loses its disabled Templates
SortBySortID_DropsDisabled(array) ==
    SelectSeq(SortFrom(array, 1, <<>>), LAMBDA t : t.enabled)

\* templateArray.sort((a, b) => a.sortID - b.sortID): ascending and stable
SortBySortID(array) == SortFrom(array, 1, <<>>)

\* Mutant of IsEnabled: the filter on enabled is dropped
IsEnabled_Dropped(template) == TRUE

\* .filter(template => template.enabled)
IsEnabled(template) == template.enabled

\* What one template contributes to the tile: the first matching fragment,
\* with the template it belongs to (kept for reference only)
DrawItem(template, prefix) ==
    LET f == matchingTiles(template, prefix)[1]
        coords == Split(f.key, ",")
    IN  [bitmap      |-> f.bitmap,
         tileCoords  |-> <<At(coords, 0), At(coords, 1)>>,
         pixelCoords |-> <<At(coords, 2), At(coords, 3)>>,
         template    |-> template]

templatesToDraw(templateArray, prefix) ==
    LET kept == SelectSeq(templateArray,
                    LAMBDA t : IsEnabled(t) /\ matchingTiles(t, prefix) # <<>>)
    IN  [i \in 1..Len(kept) |-> DrawItem(kept[i], prefix)]

\* The filter of the per-tile pixel total
IsCounted(template, prefix) ==
    matchingTiles(template, prefix) # <<>> /\ template.enabled

RECURSIVE SumPixelCounts(_, _, _)
SumPixelCounts(templateArray, prefix, i) ==
    IF i > Len(templateArray) THEN 0
    ELSE (IF IsCounted(templateArray[i], prefix) THEN templateArray[i].pixelCount ELSE 0)
             + SumPixelCounts(templateArray, prefix, i + 1)

totalPixels(templateArray, prefix) == SumPixelCounts(templateArray, prefix, 1)

\* context.drawImage(bitmap, x, y) on a canvas clipped to drawSize: the cells
\* the bitmap makes opaque replace what was drawn before
DrawImage(overlay, bitmap, x, y, drawSize) ==
    LET hit == {c \in DOMAIN bitmap.cells :
                   /\ bitmap.cells[c] # 0
                   /\ x + c[1] < drawSize /\ y + c[2] < drawSize}
        moved == {<<x + c[1], y + c[2]>> : c \in hit}
    IN  [d \in (DOMAIN overlay) \cup moved |->
            IF d \in moved
            THEN bitmap.cells[<<d[1] - x, d[2] - y>>]
            ELSE overlay[d]]

RECURSIVE DrawAll(_, _, _, _)
DrawAll(items, i, overlay, drawSize) ==
    IF i > Len(items) THEN overlay
    ELSE DrawAll(items, i + 1,
             DrawImage(overlay, items[i].bitmap,
                 ToNumber(items[i].pixelCoords[1])[1] * drawMult,
                 ToNumber(items[i].pixelCoords[2])[1] * drawMult,
                 drawSize),
             drawSize)

\* The whole of drawTemplateOnTile: the sorted array it leaves behind, the
\* status it displays and the image it returns (the live tile scaled to
\* drawSize, and over it the cells the templates painted)
drawTemplateOnTile(array, tileBlob, tileCoords) ==
    LET drawSize == tileSize * drawMult
        prefix == TilePrefix(tileCoords)
        templateArray == SortBySortID(array)
        items == templatesToDraw(templateArray, prefix)
        templateCount == Len(items)
    IN  [templateArray |-> templateArray,
         items         |-> items,
         templateCount |-> templateCount,
         totalPixels   |-> IF templateCount > 0
                           THEN Some(totalPixels(templateArray, prefix))
                           ELSE None,
         image         |-> [base    |-> tileBlob,
                            size    |-> drawSize,
                            overlay |-> DrawAll(items, 1, <<>>, drawSize)]]

----------------------------------------------------------------------------
(* Import (importJSON, #parseBlueMarble) *)

\* acceptedWhoami
acceptedWhoami == {"BlueMarble", "BluePeanits", "BluePeanuts", RemoveWhitespace(name)}

\* Mutant of InjectWhoami: nothing is injected
InjectWhoami_Never(json) == json

\* The document after: if it lacks whoami but has a templates map, inject ours
InjectWhoami(json) ==
    IF json.whoami = None /\ json.templates # None
    THEN [json EXCEPT !.whoami = Some(RemoveWhitespace(name))]
    ELSE json

\* Mutant of IsAccepted: any document that carries a whoami is accepted
IsAccepted_AnyIdentity(json) == json.whoami # None

\* json && acceptedWhoami.includes(json?.whoami)
IsAccepted(json) == json.whoami # None /\ json.whoami[1] \in acceptedWhoami

RECURSIVE MergeFrom(_, _, _)
MergeFrom(current, incoming, i) ==
    IF i > Len(incoming) THEN current
    ELSE MergeFrom(IF HasKey(current, incoming[i].key)
                   THEN current
                   ELSE Append(current, incoming[i]),
                   incoming, i + 1)

RECURSIVE OverwriteFrom(_, _, _)
OverwriteFrom(current, incoming, i) ==
    IF i > Len(incoming) THEN current
    ELSE OverwriteFrom(SetEntry(current, incoming[i].key, incoming[i]), incoming, i + 1)

\* Mutant of MergeTemplates: an imported entry replaces the entry of its key
MergeTemplates_Overwrite(current, incoming) == OverwriteFrom(current, incoming, 1)

\* Mutant of MergeTemplates: every imported entry is added, present or not
MergeTemplates_AppendAll(current, incoming) == current \o incoming

\* Merge any templates not already present
MergeTemplates(current, incoming) == MergeFrom(current, incoming, 1)

\* Whether the entry persisted an exact pixelCount
IsTrusted(entry) == entry.pixelCount # None /\ entry.pixelCount[1] >= 0

\* Mutant of ResolvePixelCount: the heuristic replaces the reconstruction
ResolvePixelCount_AlwaysHeuristic(entry, templateTiles, canvasOK) ==
    IF entry.pixelCount # None /\ entry.pixelCount[1] >= 0
    THEN [pixelCount |-> entry.pixelCount[1], written |-> FALSE]
    ELSE [pixelCount |-> Len(templateTiles) * 500, written |-> TRUE]

\* The pixel count of an imported template and whether it is written into
\* the entry.  canvasOK: the canvas gives a 2d context; without one the
\* reconstruction throws at the first bitmap
ResolvePixelCount(entry, templateTiles, canvasOK) ==
    IF IsTrusted(entry)
    THEN [pixelCount |-> entry.pixelCount[1], written |-> FALSE]
    ELSE IF canvasOK \/ Len(templateTiles) = 0
    THEN [pixelCount |-> computePixelCountFromTiles(templateTiles), written |-> TRUE]
    ELSE [pixelCount |-> (IF Len(templateTiles) = 0 THEN 1 ELSE Len(templateTiles)) * 500,
          written |-> TRUE]

\* The Template that #parseBlueMarble builds from one document entry, given
\* the array as it is when the entry is reached
ParsedTemplate(entry, array, canvasOK) ==
    LET templateKeyArray == Split(entry.key, " ")
        sortID == ToNumber(At(templateKeyArray, 0))
        second == At(templateKeyArray, 1)
        authorID == IF second = None \/ second = Some(<<>>) THEN <<"0">> ELSE second[1]
        trueSortID == IF sortID # None /\ sortID # Some(0) THEN sortID[1] ELSE Len(array)
        displayName == IF entry.name # "" THEN entry.name
                       ELSE IF sortID # None /\ sortID # Some(0)
                       THEN "Template " \o Concat(NumberToString(sortID[1]))
                       ELSE "Template "
        enabled == IF entry.enabled # None THEN entry.enabled[1] ELSE TRUE
        templateTiles == [i \in 1..Len(entry.tiles) |->
                             [key    |-> entry.tiles[i].key,
                              bitmap |-> DecodeTile(entry.tiles[i].buffer)]]
    IN  [Template(displayName, trueSortID, authorID, enabled, None, entry.key)
            EXCEPT !.chunked = templateTiles,
                   !.pixelCount =
                       ResolvePixelCount(entry, templateTiles, canvasOK).pixelCount]

\* Whether every tile buffer of the entry decodes
EntryDecodes(entry) == \A i \in 1..Len(entry.tiles) : Decodes(entry.tiles[i].buffer)

RECURSIVE ParseFrom(_, _, _, _, _)
\* #parseBlueMarble from entry i on: the array, the pixel counts written back
\* into the entries of json (by key), and whether it threw
ParseFrom(templates, i, array, written, canvasOK) ==
    IF i > Len(templates) THEN [array |-> array, written |-> written, threw |-> FALSE]
    ELSE IF ~EntryDecodes(templates[i])
    THEN [array |-> array, written |-> written, threw |-> TRUE]
    ELSE LET t == ParsedTemplate(templates[i], array, canvasOK)
         IN  ParseFrom(templates, i + 1, Append(array, t),
                 IF ResolvePixelCount(templates[i], t.chunked, canvasOK).written
                 THEN written \cup {<<templates[i].key, t.pixelCount>>}
                 ELSE written,
                 canvasOK)

parseBlueMarble(json, array, canvasOK) ==
    IF json.templates = None
    THEN [array |-> array, written |-> {}, threw |-> TRUE]
    ELSE ParseFrom(json.templates[1], 1, array, {}, canvasOK)

\* templateValue.pixelCount = template.pixelCount, seen through the loaded
\* document: only the entries that are the imported objects themselves
WriteBack(templates, written, shared) ==
    [i \in 1..Len(templates) |->
        IF templates[i].key \in shared /\ \E w \in written : w[1] = templates[i].key
        THEN [templates[i] EXCEPT !.pixelCount =
                 Some((CHOOSE w \in written : w[1] = templates[i].key)[2])]
        ELSE templates[i]]

\* The whole of importJSON.  same: json is the very object already loaded
importJSON(current, array, json0, same, canvasOK) ==
    LET json == InjectWhoami(json0)
    IN  IF ~IsAccepted(json)
        THEN [templatesJSON |-> current, templatesArray |-> array,
              accepted |-> FALSE, threw |-> FALSE]
        ELSE LET merged ==
                     IF current = Null THEN json
                     ELSE IF json.templates # None
                     THEN WithTemplates(current,
                              MergeTemplates(TemplatesOf(current), json.templates[1]))
                     ELSE current
                 shared ==
                     IF current = Null \/ same THEN KeysOf(TemplatesOf(json))
                     ELSE KeysOf(TemplatesOf(json)) \ KeysOf(TemplatesOf(current))
                 parsed == parseBlueMarble(json, array, canvasOK)
             IN  [templatesJSON |->
                      IF merged.templates = None THEN merged
                      ELSE WithTemplates(merged,
                               WriteBack(merged.templates[1], parsed.written, shared)),
                  templatesArray |-> parsed.array,
                  accepted |-> TRUE,
                  threw |-> parsed.threw]

----------------------------------------------------------------------------
(* Inputs of the model *)

\* Decoded images a user uploads: one opaque pixel; two opaque pixels side
\* by side, which straddle two tiles when anchored at the last column
Images == {<<<<1>>>>, <<<<2, 2>>>>}

\* Anchors given to createTemplate: [tileX, tileY, pixelX, pixelY]
CreateCoords == {<<0, 0, 999, 0>>}

CreateNames == {"art"}
NewNames == {"renamed"}

\* Arrays given to updateTemplateCoordinates; an element is Some(number) or
\* None for NaN
CoordInputs ==
    {<<Some(1), Some(0), Some(5), Some(0)>>,
     <<Some(2048), Some(0), Some(0), Some(0)>>,
     <<Some(0), Some(0), Some(0)>>,
     <<None, Some(0), Some(0), Some(0)>>}

\* Tiles the host requests
Tiles == {<<0, 0>>, <<1, 0>>}
LiveTile == "liveTile"

\* An entry as createTemplate writes it, under a given key
ExportedEntry(key, displayName, image, coords, enabled, pixelCount) ==
    [key        |-> key,
     name       |-> displayName,
     coords     |-> Join(coords, CommaSpace),
     enabled    |-> Some(enabled),
     tiles      |-> templateTilesBuffers(createTemplateTiles(image, coords).templateTiles),
     pixelCount |-> pixelCount]

\* A document exported by an earlier identity of the tool, by another user
DocLegacy ==
    [whoami        |-> Some("BlueMarble"),
     scriptVersion |-> "0.80.0",
     schemaVersion |-> "1.0.0",
     templates     |-> Some(<<ExportedEntry(<<"2", " ", "#">>, "legacy", <<<<3>>>>,
                                  <<0, 0, 999, 0>>, TRUE, Some(1))>>)]

\* A document without identity tag and without persisted pixel counts; its
\* first key is the one this user's first template gets
DocUntagged ==
    [whoami        |-> None,
     scriptVersion |-> "0.80.0",
     schemaVersion |-> "1.0.0",
     templates     |-> Some(<<ExportedEntry(<<"0", " ", "!">>, "mine", <<<<4, 4>>>>,
                                  <<0, 0, 999, 0>>, FALSE, None),
                              ExportedEntry(<<"1", " ", "#">>, "theirs", <<<<5>>>>,
                                  <<0, 0, 999, 0>>, TRUE, None)>>)]

\* A document of another tool
DocForeign ==
    [whoami        |-> Some("SomeOtherTool"),
     scriptVersion |-> "9.9.9",
     schemaVersion |-> "1.0.0",
     templates     |-> Some(<<ExportedEntry(<<"0", " ", "#">>, "foreign", <<<<6>>>>,
                                  <<0, 0, 999, 0>>, TRUE, Some(1))>>)]

\* What the bootstrap reads when nothing is stored: {}
DocEmpty ==
    [whoami        |-> None,
     scriptVersion |-> "",
     schemaVersion |-> "",
     templates     |-> None]

\* A document whose second template has a tile buffer that is not an image
DocCorrupt ==
    [whoami        |-> Some("BluePeanits"),
     scriptVersion |-> "0.81.1",
     schemaVersion |-> "1.0.0",
     templates     |-> Some(<<ExportedEntry(<<"3", " ", "#">>, "first", <<<<7>>>>,
                                  <<0, 0, 999, 0>>, TRUE, Some(1)),
                              [ExportedEntry(<<"4", " ", "#">>, "broken", <<<<8>>>>,
                                   <<0, 0, 999, 0>>, TRUE, Some(1))
                                  EXCEPT !.tiles[1].buffer = CorruptTile],
                              ExportedEntry(<<"5", " ", "#">>, "last", <<<<9>>>>,
                                  <<0, 0, 999, 0>>, TRUE, Some(1))>>)]

ImportDocs == {DocLegacy, DocUntagged, DocForeign, DocEmpty, DocCorrupt}

\* Current composite key of a Template instance
KeyOfTemplate(t) == CompositeKey(t.sortID, t.authorID)

\* Keys the callers pass: those of the document and of the instances, and one
\* that names nothing
AbsentKey == <<"7", " ", "!">>
CallKeys ==
    KeysOf(TemplatesOf(templatesJSON))
        \cup {templatesArray[i].originKey : i \in 1..Len(templatesArray)}
        \cup {KeyOfTemplate(templatesArray[i]) : i \in 1..Len(templatesArray)}
        \cup {AbsentKey}

----------------------------------------------------------------------------
(* The state machine *)

Init ==
    /\ templatesJSON = Null
    /\ templatesArray = <<>>
    /\ gmStore = None
    /\ lsStore = None
    /\ assigned = {}
    /\ importHistory = [only |-> TRUE, times |-> 0]
    /\ opsUsed = {}
    /\ call = [op |-> "constructor", key |-> <<>>, arg |-> <<>>, out |-> <<>>]
    /\ fallback = "none"
    /\ nOps = 0
    /\ faults = 0
    /\ nEdits = 0
    /\ inFlight = <<>>
    /\ name = ScriptName

\* The failures the environment may still produce: a throwing
\* localStorage.setItem, a canvas without 2d context, a store scoped to
\* another @name
Failing == IF faults < MaxFaults THEN BOOLEAN ELSE {FALSE}

Failed(n) == faults' = faults + n

\* The operations that edit a template in place
EditOps ==
    {"toggleTemplate", "updateTemplateName", "updateTemplateCoordinates",
     "setAllTemplatesEnabled"}

\* In every action r is the effect of the handler on the current state,
\* bound once

\* What every completed operation records
Record(op, key, arg, out) ==
    /\ call' = [op |-> op, key |-> key, arg |-> arg, out |-> out]
    /\ nOps' = nOps + 1
    /\ opsUsed' = opsUsed \cup {op}
    /\ nEdits' = IF op \in EditOps THEN nEdits + 1 ELSE nEdits
    /\ UNCHANGED name

\* A handler that ran from its call to its return: no suspended call's
\* locals are touched by it
Done(op, key, arg, out) ==
    /\ Record(op, key, arg, out)
    /\ UNCHANGED inFlight

\* Mutant of Store: only the userscript store is written
Store_PrimaryOnly(json, setItemThrows) ==
    /\ gmStore' = Some(storeTemplates(json))
    /\ UNCHANGED lsStore
    /\ fallback' = IF setItemThrows THEN "throws" ELSE "ok"
    /\ Failed(IF setItemThrows THEN 1 ELSE 0)

\* Mutant of Store: a throwing localStorage.setItem undoes the primary write
Store_AllOrNothing(json, setItemThrows) ==
    /\ gmStore' = IF setItemThrows THEN gmStore ELSE Some(storeTemplates(json))
    /\ lsStore' = IF setItemThrows THEN lsStore ELSE Some(storeTemplates(json))
    /\ fallback' = IF setItemThrows THEN "throws" ELSE "ok"
    /\ Failed(IF setItemThrows THEN 1 ELSE 0)

\* #storeTemplates: GM.setValue, then localStorage.setItem inside try/catch;
\* setItemThrows is whether localStorage.setItem throws (quota, disabled storage)
Store(json, setItemThrows) ==
    /\ gmStore' = Some(storeTemplates(json))
    /\ lsStore' = IF setItemThrows THEN lsStore ELSE Some(storeTemplates(json))
    /\ fallback' = IF setItemThrows THEN "throws" ELSE "ok"
    /\ Failed(IF setItemThrows THEN 1 ELSE 0)

\* An operation that does not reach #storeTemplates
NoStore ==
    /\ UNCHANGED <<gmStore, lsStore>>
    /\ fallback' = "none"

\* createTemplate(blob, name, coords)
CreateTemplateEffect(json0, array, image, displayName, coords) ==
    LET json == EnsureJSON(json0)
        sortID == Len(TemplatesOf(json))
        authorID == numberToEncoded(UserNumber, encodingBase)
        key == CompositeKey(sortID, authorID)
        chunks == createTemplateTiles(image, coords)
        template == [Template(displayName, sortID, authorID, TRUE, Some(coords), key)
                        EXCEPT !.chunked = chunks.templateTiles,
                               !.pixelCount = chunks.totalPixelCount]
        entry == [key        |-> key,
                  name       |-> template.displayName,
                  coords     |-> Join(coords, CommaSpace),
                  enabled    |-> Some(TRUE),
                  tiles      |-> templateTilesBuffers(chunks.templateTiles),
                  pixelCount |-> Some(template.pixelCount)]
    IN  [templatesJSON  |-> WithTemplates(json, SetEntry(TemplatesOf(json), key, entry)),
         templatesArray |-> Append(array, template),
         sortID         |-> sortID,
         key            |-> key]

CreateTemplate ==
    /\ nOps < MaxOps
    /\ \E image \in Images, displayName \in CreateNames, coords \in CreateCoords,
       setItemThrows \in Failing :
        \E r \in {CreateTemplateEffect(templatesJSON, templatesArray, image, displayName, coords)} :
            /\ templatesJSON' = r.templatesJSON
            /\ templatesArray' = r.templatesArray
            /\ Store(r.templatesJSON, setItemThrows)
            /\ assigned' = assigned \cup {r.sortID}
            /\ importHistory' = [only |-> FALSE, times |-> 0]
            /\ Done("createTemplate", r.key,
                    [image |-> image, name |-> displayName, coords |-> coords],
                    [sortID |-> r.sortID])

\* deleteTemplate(templateKey)
DeleteTemplateEffect(json0, array, templateKey) ==
    LET json == EnsureJSON(json0)
    IN  [templatesJSON  |-> WithTemplates(json, DeleteEntry(TemplatesOf(json), templateKey)),
         templatesArray |-> SelectSeq(array, LAMBDA t : ~MatchesKey(t, templateKey))]

DeleteTemplate ==
    /\ nOps < MaxOps
    /\ \E templateKey \in CallKeys, setItemThrows \in Failing :
        \E r \in {DeleteTemplateEffect(templatesJSON, templatesArray, templateKey)} :
            /\ templatesJSON' = r.templatesJSON
            /\ templatesArray' = r.templatesArray
            /\ Store(r.templatesJSON, setItemThrows)
            /\ importHistory' = [only |-> FALSE, times |-> 0]
            /\ UNCHANGED assigned
            /\ Done("deleteTemplate", templateKey, <<>>, <<>>)

\* toggleTemplate(templateKey, enabled)
ToggleTemplateEffect(json0, array, templateKey, enabled) ==
    LET json == EnsureJSON(json0)
        i == FindTemplate(array, templateKey)
    IN  [templatesJSON  |->
             IF HasKey(TemplatesOf(json), templateKey)
             THEN WithTemplates(json, SetEntry(TemplatesOf(json), templateKey,
                      [EntryOf(TemplatesOf(json), templateKey) EXCEPT !.enabled = Some(enabled)]))
             ELSE json,
         templatesArray |->
             IF i = 0 THEN array ELSE [array EXCEPT ![i].enabled = enabled]]

ToggleTemplate ==
    /\ nOps < MaxOps
    /\ nEdits < MaxEdits
    /\ \E templateKey \in CallKeys, enabled \in BOOLEAN, setItemThrows \in Failing :
        \E r \in {ToggleTemplateEffect(templatesJSON, templatesArray, templateKey, enabled)} :
            /\ templatesJSON' = r.templatesJSON
            /\ templatesArray' = r.templatesArray
            /\ Store(r.templatesJSON, setItemThrows)
            /\ importHistory' = [only |-> FALSE, times |-> 0]
            /\ UNCHANGED assigned
            /\ Done("toggleTemplate", templateKey, enabled, <<>>)

\* getAllTemplates(): the metadata of every entry of the document
getAllTemplates(json, array) ==
    [i \in 1..Len(TemplatesOf(json)) |->
        LET template == TemplatesOf(json)[i]
            instances == SelectSeq(array, LAMBDA t : KeyOfTemplate(t) = template.key)
        IN  [key        |-> template.key,
             name       |-> template.name,
             coords     |-> template.coords,
             enabled    |-> template.enabled,
             pixelCount |-> IF instances # <<>> /\ instances[1].pixelCount # 0
                            THEN instances[1].pixelCount
                            ELSE IF template.pixelCount # None /\ template.pixelCount[1] # 0
                            THEN template.pixelCount[1]
                            ELSE 0]]

RECURSIVE ToggleFrom(_, _, _, _, _)
\* for (const template of templates) await this.toggleTemplate(template.key, enabled)
ToggleFrom(json, array, templates, i, enabled) ==
    IF i > Len(templates) THEN [templatesJSON |-> json, templatesArray |-> array]
    ELSE LET r == ToggleTemplateEffect(json, array, templates[i].key, enabled)
         IN  ToggleFrom(r.templatesJSON, r.templatesArray, templates, i + 1, enabled)

\* setAllTemplatesEnabled(enabled); stored: whether toggleTemplate was called
SetAllTemplatesEnabledEffect(json, array, enabled) ==
    LET templates == getAllTemplates(json, array)
        r == ToggleFrom(json, array, templates, 1, enabled)
    IN  [templatesJSON  |-> r.templatesJSON,
         templatesArray |-> r.templatesArray,
         stored         |-> templates # <<>>]

SetAllTemplatesEnabled ==
    /\ nOps < MaxOps
    /\ nEdits < MaxEdits
    /\ \E enabled \in BOOLEAN, setItemThrows \in Failing :
        \E r \in {SetAllTemplatesEnabledEffect(templatesJSON, templatesArray, enabled)} :
            /\ templatesJSON' = r.templatesJSON
            /\ templatesArray' = r.templatesArray
            /\ IF r.stored THEN Store(r.templatesJSON, setItemThrows)
               ELSE NoStore /\ ~setItemThrows /\ Failed(0)
            /\ importHistory' = [only |-> FALSE, times |-> 0]
            /\ UNCHANGED assigned
            /\ Done("setAllTemplatesEnabled", <<>>, enabled, <<>>)

\* updateTemplateName(templateKey, newName)
UpdateTemplateNameEffect(json0, array, templateKey, newName) ==
    LET json == EnsureJSON(json0)
        i == FindTemplate(array, templateKey)
    IN  [templatesJSON  |->
             IF HasKey(TemplatesOf(json), templateKey)
             THEN WithTemplates(json, SetEntry(TemplatesOf(json), templateKey,
                      [EntryOf(TemplatesOf(json), templateKey) EXCEPT !.name = newName]))
             ELSE json,
         templatesArray |->
             IF i = 0 THEN array ELSE [array EXCEPT ![i].displayName = newName]]

UpdateTemplateName ==
    /\ nOps < MaxOps
    /\ nEdits < MaxEdits
    /\ \E templateKey \in CallKeys, newName \in NewNames, setItemThrows \in Failing :
        \E r \in {UpdateTemplateNameEffect(templatesJSON, templatesArray, templateKey, newName)} :
            /\ templatesJSON' = r.templatesJSON
            /\ templatesArray' = r.templatesArray
            /\ Store(r.templatesJSON, setItemThrows)
            /\ importHistory' = [only |-> FALSE, times |-> 0]
            /\ UNCHANGED assigned
            /\ Done("updateTemplateName", templateKey, newName, <<>>)

\* The validation of updateTemplateCoordinates: the error it throws, if any
CoordinatesError(newCoords) ==
    IF Len(newCoords) # 4
    THEN Some("Coordinates must be an array of 4 numbers [tileX, tileY, pixelX, pixelY]")
    ELSE IF \E i \in 1..4 : newCoords[i] = None
    THEN Some("All coordinates must be valid numbers")
    ELSE None

\* Mutant of UpdateTemplateCoordinatesEffect: moving a template discards the
\* fragments chunked for the old position
UpdateTemplateCoordinatesEffect_DropsFragments(json0, array, templateKey, newCoords) ==
    LET json == EnsureJSON(json0)
        error == CoordinatesError(newCoords)
        numbers == [k \in 1..Len(newCoords) |-> newCoords[k][1]]
        i == FindTemplate(array, templateKey)
    IN  IF error # None
        THEN [templatesJSON |-> json, templatesArray |-> array, error |-> error]
        ELSE [templatesJSON  |->
                  IF HasKey(TemplatesOf(json), templateKey)
                  THEN WithTemplates(json, SetEntry(TemplatesOf(json), templateKey,
                           [EntryOf(TemplatesOf(json), templateKey)
                               EXCEPT !.coords = Join(numbers, CommaSpace)]))
                  ELSE json,
              templatesArray |->
                  IF i = 0 THEN array
                  ELSE [array EXCEPT ![i].coords = Some(numbers), ![i].chunked = <<>>],
              error |-> None]

\* updateTemplateCoordinates(templateKey, newCoords)
UpdateTemplateCoordinatesEffect(json0, array, templateKey, newCoords) ==
    LET json == EnsureJSON(json0)
        error == CoordinatesError(newCoords)
        numbers == [k \in 1..Len(newCoords) |-> newCoords[k][1]]
        i == FindTemplate(array, templateKey)
    IN  IF error # None
        THEN [templatesJSON |-> json, templatesArray |-> array, error |-> error]
        ELSE [templatesJSON  |->
                  IF HasKey(TemplatesOf(json), templateKey)
                  THEN WithTemplates(json, SetEntry(TemplatesOf(json), templateKey,
                           [EntryOf(TemplatesOf(json), templateKey)
                               EXCEPT !.coords = Join(numbers, CommaSpace)]))
                  ELSE json,
              templatesArray |->
                  IF i = 0 THEN array ELSE [array EXCEPT ![i].coords = Some(numbers)],
              error |-> None]

UpdateTemplateCoordinates ==
    /\ nOps < MaxOps
    /\ nEdits < MaxEdits
    /\ \E templateKey \in CallKeys, newCoords \in CoordInputs, setItemThrows \in Failing :
        \E r \in {UpdateTemplateCoordinatesEffect(templatesJSON, templatesArray,
                     templateKey, newCoords)} :
            /\ templatesJSON' = r.templatesJSON
            /\ templatesArray' = r.templatesArray
            /\ IF r.error = None THEN Store(r.templatesJSON, setItemThrows)
               ELSE NoStore /\ ~setItemThrows /\ Failed(0)
            /\ importHistory' = [only |-> FALSE, times |-> 0]
            /\ UNCHANGED assigned
            /\ Done("updateTemplateCoordinates", templateKey, newCoords,
                    [error |-> r.error])

\* importJSON(json): of a document from outside, or of the loaded object
ImportJSON ==
    /\ nOps < MaxOps
    /\ \E json \in ImportDocs \cup {templatesJSON}, same \in BOOLEAN, canvasFails \in Failing :
        /\ Failed(IF canvasFails THEN 1 ELSE 0)
        /\ same <=> (json = templatesJSON /\ templatesJSON # Null)
        /\ json # Null
        /\ \E canvasOK \in {~canvasFails} :
           \E r \in {importJSON(templatesJSON, templatesArray, json, same, canvasOK)} :
               /\ templatesJSON' = r.templatesJSON
               /\ templatesArray' = r.templatesArray
               /\ NoStore
               /\ UNCHANGED assigned
               /\ importHistory' =
                      IF importHistory.only /\ r.accepted /\ importHistory.times = 0
                      THEN [only |-> TRUE, times |-> 1, json |-> json]
                      ELSE IF /\ importHistory.only /\ r.accepted
                              /\ (same \/ json = importHistory.json)
                      THEN [importHistory EXCEPT !.times = @ + 1]
                      ELSE [only |-> FALSE, times |-> 0]
               /\ Done("importJSON", <<>>, [json |-> json, same |-> same, canvasOK |-> canvasOK],
                       [accepted |-> r.accepted, threw |-> r.threw])

\* drawTemplateOnTile(tileBlob, tileCoords)
DrawTemplateOnTile ==
    /\ nOps < MaxOps
    /\ \E tileCoords \in Tiles :
        \E r \in {drawTemplateOnTile(templatesArray, LiveTile, tileCoords)} :
            /\ templatesArray' = r.templateArray
            /\ NoStore
            /\ Failed(0)
            /\ UNCHANGED <<templatesJSON, assigned>>
            /\ importHistory' = [only |-> FALSE, times |-> 0]
            /\ Done("drawTemplateOnTile", <<>>, tileCoords,
                    [items         |-> r.items,
                     templateCount |-> r.templateCount,
                     totalPixels   |-> r.totalPixels,
                     image         |-> r.image])

\* JSON.parse(stored) || {} of a store's value; a store without value gives {}
ParseStored(stored) ==
    IF stored = None THEN DocEmpty
    ELSE IF stored[1].text = Null THEN DocEmpty
    ELSE stored[1].text

\* Whether a parsed document has a templates map with at least one key
HasTemplates(doc) == doc.templates # None /\ Len(doc.templates[1]) > 0

\* Mutant of storageTemplates: the fallback store is preferred
storageTemplates_FallbackFirst(gm, ls) ==
    IF HasTemplates(ParseStored(ls)) THEN ParseStored(ls) ELSE ParseStored(gm)

\* The document the bootstrap hands to importJSON, from the values of the
\* userscript store and of localStorage
storageTemplates(gm, ls) ==
    LET primary == ParseStored(gm)
    IN  IF HasTemplates(primary) THEN primary
        ELSE IF ls # None /\ HasTemplates(ParseStored(ls)) THEN ParseStored(ls)
        ELSE primary

\* A page load: a new TemplateManager is constructed and the bootstrap
\* imports what the stores hold.  renamed: the script runs under another
\* @name, to which the userscript store is scoped, so GM_getValue finds nothing
Bootstrap ==
    /\ nOps < MaxOps
    /\ \E renamed \in Failing, canvasFails \in Failing :
        LET gm == IF renamed THEN None ELSE gmStore
            json == storageTemplates(gm, lsStore)
            n == (IF renamed THEN 1 ELSE 0) + (IF canvasFails THEN 1 ELSE 0)
        IN  /\ faults + n <= MaxFaults
            /\ \E r \in {importJSON(Null, <<>>, json, FALSE, ~canvasFails)} :
                   /\ Failed(n)
                   /\ templatesJSON' = r.templatesJSON
                   /\ templatesArray' = r.templatesArray
                   /\ gmStore' = gm
                   /\ UNCHANGED lsStore
                   /\ fallback' = "none"
                   /\ assigned' = {}
                   /\ importHistory' = [only |-> FALSE, times |-> 0]
                   /\ Done("bootstrap", <<>>, [gm |-> gm, ls |-> lsStore, json |-> json],
                           [accepted |-> r.accepted, threw |-> r.threw])

Next ==
    \/ Bootstrap
    \/ CreateTemplate
    \/ DeleteTemplate
    \/ ToggleTemplate
    \/ SetAllTemplatesEnabled
    \/ UpdateTemplateName
    \/ UpdateTemplateCoordinates
    \/ ImportJSON
    \/ DrawTemplateOnTile

Spec == Init /\ [][Next]_vars

----------------------------------------------------------------------------
(* The Chunker and the Reconstructor as pure functions of an image *)

\* Source images up to MaxImageSide pixels a side; colour 0 is transparent
ChunkColours == {0, 7}
ChunkImages ==
    UNION {[1..h -> [1..w -> ChunkColours]] : h \in 1..MaxImageSide, w \in 1..MaxImageSide}

\* Anchors: inside a tile, on its last column, on its last row, on its last
\* pixel, and in a tile away from the origin
ChunkCoords ==
    {<<0, 0, 0, 0>>, <<0, 0, 999, 0>>, <<0, 0, 0, 999>>, <<0, 0, 999, 999>>,
     <<12, 3, 999, 500>>}

InitChunker ==
    /\ templatesJSON = Null
    /\ templatesArray = <<>>
    /\ gmStore = None
    /\ lsStore = None
    /\ assigned = {}
    /\ importHistory = [only |-> TRUE, times |-> 0]
    /\ opsUsed = {}
    /\ fallback = "none"
    /\ nOps = 0
    /\ faults = 0
    /\ nEdits = 0
    /\ inFlight = <<>>
    /\ name = ScriptName
    /\ \E image \in ChunkImages, coords \in ChunkCoords :
           call = [op |-> "input", key |-> <<>>,
                   arg |-> [image |-> image, coords |-> coords], out |-> <<>>]

\* template.createTemplateTiles() on the input
Chunk ==
    /\ call.op = "input"
    /\ call' = [call EXCEPT !.op = "createTemplateTiles",
                            !.out = createTemplateTiles(call.arg.image, call.arg.coords)]
    /\ UNCHANGED <<templatesJSON, templatesArray, gmStore, lsStore, assigned,
                   importHistory, opsUsed, fallback, nOps, faults, nEdits, inFlight, name>>

\* #computePixelCountFromTiles on the bitmaps the Chunker produced
Reconstruct ==
    /\ call.op = "createTemplateTiles"
    /\ call' = [call EXCEPT !.op = "computePixelCountFromTiles",
                            !.out = [templateTiles   |-> call.out.templateTiles,
                                     totalPixelCount |-> call.out.totalPixelCount,
                                     reconstructed   |->
                                         computePixelCountFromTiles(call.out.templateTiles)]]
    /\ UNCHANGED <<templatesJSON, templatesArray, gmStore, lsStore, assigned,
                   importHistory, opsUsed, fallback, nOps, faults, nEdits, inFlight, name>>

NextChunker ==
    \/ Chunk
    \/ Reconstruct

SpecChunker == InitChunker /\ [][NextChunker]_vars

----------------------------------------------------------------------------
(* Claims *)

\* C1: over any sequence of createTemplate and deleteTemplate calls of one
\* session, the sortID that createTemplate assigns is greater than every
\* sortID it assigned before, templates deleted since included.
C1_SortIDsStrictlyIncreasing ==
    [][(/\ call'.op = "createTemplate"
        /\ nOps' = nOps + 1
        /\ opsUsed' \subseteq {"createTemplate", "deleteTemplate"})
           => \A s \in assigned : call'.out.sortID > s]_vars

\* C2: in every reachable state no two Templates of the in-memory array have
\* the same composite key "<sortID> <authorID>".
C2_CompositeKeysUnique ==
    \A i, j \in 1..Len(templatesArray) :
        i # j => KeyOfTemplate(templatesArray[i]) # KeyOfTemplate(templatesArray[j])

\* C3: after deleteTemplate(key) the document has no entry for key, the array
\* holds no Template created or imported under key, and every other entry
\* and Template is unchanged; an absent key changes nothing.
C3_DeleteRemovesExactlyKey ==
    [][(call'.op = "deleteTemplate" /\ nOps' = nOps + 1)
           => /\ ~HasKey(TemplatesOf(templatesJSON'), call'.key)
              /\ TemplatesOf(templatesJSON') =
                     SelectSeq(TemplatesOf(templatesJSON), LAMBDA e : e.key # call'.key)
              /\ templatesArray' =
                     SelectSeq(templatesArray, LAMBDA t : t.originKey # call'.key)]_vars

\* C4: after toggleTemplate(key, enabled) for a key of the document, the
\* entry's flag and the flag of the Template of that key equal the argument,
\* and no other flag changes in the document or the array.
C4_ToggleSetsBothRepresentations ==
    [][(/\ call'.op = "toggleTemplate"
        /\ nOps' = nOps + 1
        /\ HasKey(TemplatesOf(templatesJSON), call'.key))
           => /\ TemplatesOf(templatesJSON') =
                     [i \in 1..Len(TemplatesOf(templatesJSON)) |->
                         IF TemplatesOf(templatesJSON)[i].key = call'.key
                         THEN [TemplatesOf(templatesJSON)[i] EXCEPT !.enabled = Some(call'.arg)]
                         ELSE TemplatesOf(templatesJSON)[i]]
              /\ templatesArray' =
                     [i \in 1..Len(templatesArray) |->
                         IF templatesArray[i].originKey = call'.key
                         THEN [templatesArray[i] EXCEPT !.enabled = call'.arg]
                         ELSE templatesArray[i]]]_vars

\* Whether the item paints canvas cell d, and with which colour
ItemX(item) == ToNumber(item.pixelCoords[1])[1] * drawMult
ItemY(item) == ToNumber(item.pixelCoords[2])[1] * drawMult
Covers(item, d) ==
    <<d[1] - ItemX(item), d[2] - ItemY(item)>> \in DOMAIN item.bitmap.cells
ColourAt(item, d) == item.bitmap.cells[<<d[1] - ItemX(item), d[2] - ItemY(item)>>]

\* Whether a fragment of template t lies in the requested tile
HasFragmentIn(t, tileCoords) ==
    \E i \in 1..Len(t.chunked) : StartsWith(t.chunked[i].key, TilePrefix(tileCoords))

RECURSIVE SumOfPixelCounts(_)
SumOfPixelCounts(templates) ==
    IF templates = <<>> THEN 0
    ELSE Head(templates).pixelCount + SumOfPixelCounts(Tail(templates))

\* C5: drawTemplateOnTile draws no fragment of a template whose enabled flag
\* is false, paints no cell from it, and does not add its pixelCount to the
\* per-tile total it reports, even when its fragment keys match the tile.
C5_DisabledExcluded ==
    call.op = "drawTemplateOnTile" =>
        /\ \A i \in 1..Len(call.out.items) : call.out.items[i].template.enabled
        /\ \A d \in DOMAIN call.out.image.overlay :
               \E i \in 1..Len(templatesArray) :
                   /\ templatesArray[i].enabled
                   /\ \E k \in 1..Len(templatesArray[i].chunked) :
                          LET f == templatesArray[i].chunked[k]
                              item == [bitmap |-> f.bitmap,
                                       pixelCoords |-> <<At(Split(f.key, ","), 2),
                                                         At(Split(f.key, ","), 3)>>]
                          IN  /\ StartsWith(f.key, TilePrefix(call.arg))
                              /\ Covers(item, d)
                              /\ ColourAt(item, d) = call.out.image.overlay[d]
        /\ call.out.totalPixels # None =>
               call.out.totalPixels[1] =
                   SumOfPixelCounts(SelectSeq(templatesArray,
                       LAMBDA t : t.enabled /\ HasFragmentIn(t, call.arg)))

\* C5 witness: a tile was drawn with one template painted and reported while
\* a disabled template has a fragment in that tile.
C5_Witness ==
    /\ call.op = "drawTemplateOnTile"
    /\ call.out.templateCount > 0
    /\ \E i \in 1..Len(templatesArray) :
           /\ ~templatesArray[i].enabled
           /\ templatesArray[i].pixelCount > 0
           /\ HasFragmentIn(templatesArray[i], call.arg)

\* C6: drawTemplateOnTile draws the matching fragments in ascending sortID
\* order, so that every painted cell shows the colour of a template that has
\* the highest sortID among the drawn templates covering that cell.
C6_HigherSortIDWins ==
    call.op = "drawTemplateOnTile" =>
        LET items == call.out.items
        IN  /\ \A i, j \in 1..Len(items) :
                   i < j => items[i].template.sortID <= items[j].template.sortID
            /\ \A d \in DOMAIN call.out.image.overlay :
                   \E i \in 1..Len(items) :
                       /\ Covers(items[i], d)
                       /\ ColourAt(items[i], d) = call.out.image.overlay[d]
                       /\ \A j \in 1..Len(items) :
                              Covers(items[j], d) =>
                                  items[j].template.sortID <= items[i].template.sortID

\* C6 witness: two enabled templates of different sortID were drawn over a
\* common cell, and the cell shows the colour of the higher one, which
\* differs from the colour of the lower one.
C6_Witness ==
    /\ call.op = "drawTemplateOnTile"
    /\ \E i, j \in 1..Len(call.out.items) :
           /\ call.out.items[i].template.sortID < call.out.items[j].template.sortID
           /\ \E d \in DOMAIN call.out.image.overlay :
                  /\ Covers(call.out.items[i], d)
                  /\ Covers(call.out.items[j], d)
                  /\ ColourAt(call.out.items[i], d) # ColourAt(call.out.items[j], d)
                  /\ call.out.image.overlay[d] = ColourAt(call.out.items[j], d)

\* The entry the import leaves for a key it adds: the imported entry, its
\* pixelCount kept when it carries one
IsImportedEntry(entry, imported) ==
    /\ entry.key = imported.key
    /\ entry.name = imported.name
    /\ entry.coords = imported.coords
    /\ entry.enabled = imported.enabled
    /\ entry.tiles = imported.tiles
    /\ imported.pixelCount # None => entry.pixelCount = imported.pixelCount

\* C7: when importJSON accepts a document while one is loaded, every key
\* already in the loaded document keeps its entry unchanged, and every key of
\* the imported document that was absent is added with the imported entry.
C7_ImportIsAdditiveFirstWins ==
    [][(/\ call'.op = "importJSON"
        /\ nOps' = nOps + 1
        /\ call'.out.accepted
        /\ templatesJSON # Null)
           => LET old == TemplatesOf(templatesJSON)
                  new == TemplatesOf(templatesJSON')
                  incoming == TemplatesOf(call'.arg.json)
              IN  /\ \A k \in KeysOf(old) :
                         HasKey(new, k) /\ EntryOf(new, k) = EntryOf(old, k)
                  /\ \A k \in KeysOf(incoming) \ KeysOf(old) :
                         HasKey(new, k) /\ IsImportedEntry(EntryOf(new, k), EntryOf(incoming, k))
                  /\ KeysOf(new) = KeysOf(old) \cup KeysOf(incoming)]_vars

\* C7 witness: an accepted import into a loaded document has left one of its
\* keys with the entry the document already had and added another.
C7_Witness ==
    /\ call.op = "importJSON"
    /\ call.out.accepted
    /\ ~call.arg.same
    /\ \E k1, k2 \in KeysOf(TemplatesOf(call.arg.json)) :
           /\ HasKey(TemplatesOf(templatesJSON), k1)
           /\ EntryOf(TemplatesOf(templatesJSON), k1).name
                  # EntryOf(TemplatesOf(call.arg.json), k1).name
           /\ HasKey(TemplatesOf(templatesJSON), k2)
           /\ EntryOf(TemplatesOf(templatesJSON), k2).name
                  = EntryOf(TemplatesOf(call.arg.json), k2).name

\* C8: importing the same accepted document a second time into a Manager
\* that was empty before the first import leaves the document as the first
\* import left it.
C8_SecondImportKeepsDocument ==
    [][(/\ importHistory.only
        /\ importHistory.times = 1
        /\ importHistory'.only
        /\ importHistory'.times = 2)
           => templatesJSON' = templatesJSON]_vars

\* C8 witness: the same accepted document, which has templates, was imported
\* twice into a Manager that was empty, and nothing else was called.
C8_Witness ==
    /\ importHistory.only
    /\ importHistory.times = 2
    /\ call.op = "importJSON"
    /\ TemplatesOf(templatesJSON) # <<>>

\* C9: importJSON of a document whose whoami is not in the allow-list leaves
\* the loaded document, the array and both persistence sinks as they were.
C9_RejectedImportChangesNothing ==
    [][(/\ call'.op = "importJSON"
        /\ nOps' = nOps + 1
        /\ call'.arg.json.whoami # None
        /\ call'.arg.json.whoami[1] \notin
               {"BlueMarble", "BluePeanits", "BluePeanuts", RemoveWhitespace(name)})
           => UNCHANGED <<templatesJSON, templatesArray, gmStore, lsStore>>]_vars

\* C9 witness: a document of another tool was imported and rejected while a
\* document, templates and persisted data existed.
C9_Witness ==
    /\ call.op = "importJSON"
    /\ call.arg.json.whoami = Some("SomeOtherTool")
    /\ ~call.out.accepted
    /\ templatesArray # <<>>
    /\ templatesJSON # Null
    /\ gmStore # None

\* What the coordinate update must refuse: not 4 numbers, a NaN, a negative
\* number, a tile index above 2047, an offset outside the tile
InvalidCoordinates(newCoords) ==
    \/ Len(newCoords) # 4
    \/ \E i \in 1..Len(newCoords) : newCoords[i] = None
    \/ /\ \A i \in 1..Len(newCoords) : newCoords[i] # None
       /\ \/ \E i \in 1..4 : newCoords[i][1] < 0
          \/ newCoords[1][1] > MaxTileIndex
          \/ newCoords[2][1] > MaxTileIndex
          \/ newCoords[3][1] >= tileSize
          \/ newCoords[4][1] >= tileSize

CoordsOfEntries(json) ==
    [i \in 1..Len(TemplatesOf(json)) |-> TemplatesOf(json)[i].coords]

CoordsOfTemplates(array) == [i \in 1..Len(array) |-> array[i].coords]

\* C10: updateTemplateCoordinates fails with a validation error and leaves
\* the stored coordinates unchanged whenever newCoords is not 4 finite
\* non-negative numbers, a tile index exceeds 2047, or an offset is outside
\* the tile; in particular for [2048, 0, 0, 0].
C10_InvalidCoordinatesRejected ==
    [][(/\ call'.op = "updateTemplateCoordinates"
        /\ nOps' = nOps + 1
        /\ InvalidCoordinates(call'.arg))
           => /\ call'.out.error # None
              /\ CoordsOfEntries(templatesJSON') = CoordsOfEntries(templatesJSON)
              /\ CoordsOfTemplates(templatesArray') = CoordsOfTemplates(templatesArray)]_vars

----------------------------------------------------------------------------
(* Persistence *)

\* The operations that end in #storeTemplates
MutatingOps ==
    {"createTemplate", "deleteTemplate", "toggleTemplate", "updateTemplateName",
     "updateTemplateCoordinates"}

\* C11: when createTemplate, deleteTemplate, toggleTemplate,
\* updateTemplateName or updateTemplateCoordinates has completed and the
\* fallback store was writable, the userscript store and the browser-local
\* store both hold the serialization of the current in-memory document.
C11_BothSinksHoldTheDocument ==
    (call.op \in MutatingOps /\ fallback = "ok")
        => /\ gmStore = Some([text |-> templatesJSON])
           /\ lsStore = Some([text |-> templatesJSON])
           /\ gmStore = lsStore

C11_Witness ==
    /\ call.op = "toggleTemplate"
    /\ fallback = "ok"
    /\ HasKey(TemplatesOf(templatesJSON), call.key)
    /\ lsStore = Some([text |-> templatesJSON])

\* What the last operation was asked to change is in the document
CarriesMutation(c, before, after) ==
    CASE c.op = "createTemplate" ->
            /\ HasKey(TemplatesOf(after), c.key)
            /\ EntryOf(TemplatesOf(after), c.key).name = c.arg.name
      [] c.op = "deleteTemplate" -> ~HasKey(TemplatesOf(after), c.key)
      [] c.op = "toggleTemplate" ->
            HasKey(TemplatesOf(before), c.key)
                => EntryOf(TemplatesOf(after), c.key).enabled = Some(c.arg)
      [] c.op = "updateTemplateName" ->
            HasKey(TemplatesOf(before), c.key)
                => EntryOf(TemplatesOf(after), c.key).name = c.arg
      [] c.op = "updateTemplateCoordinates" ->
            HasKey(TemplatesOf(before), c.key)
                => EntryOf(TemplatesOf(after), c.key).coords =
                       Join([k \in 1..4 |-> c.arg[k][1]], CommaSpace)
      [] OTHER -> TRUE

\* C12: when localStorage.setItem throws during one of those operations, the
\* operation still completes: the userscript store holds the current
\* document, the fallback keeps what it had, and the in-memory document and
\* array carry the mutation.
C12_FallbackFailureIsContained ==
    [][(call'.op \in MutatingOps /\ fallback' = "throws" /\ nOps' = nOps + 1)
           => /\ gmStore' = Some([text |-> templatesJSON'])
              /\ lsStore' = lsStore
              /\ CarriesMutation(call', templatesJSON, templatesJSON')
              /\ (call'.op = "createTemplate"
                     => Len(templatesArray') = Len(templatesArray) + 1)
              /\ (call'.op = "deleteTemplate"
                     => \A i \in 1..Len(templatesArray') :
                            ~MatchesKey(templatesArray'[i], call'.key))]_vars

C12_Witness ==
    /\ call.op = "deleteTemplate"
    /\ fallback = "throws"
    /\ gmStore = Some([text |-> templatesJSON])
    /\ lsStore # None
    /\ lsStore # gmStore

\* Number of templates in the document a store holds; 0 for a store without
\* value
StoredTemplateCount(stored) ==
    IF stored = None THEN 0 ELSE Len(TemplatesOf(stored[1].text))

\* C13: at bootstrap importJSON is given the primary store's document
\* whenever that document has at least one template; the fallback store's
\* document is given only when the primary store is missing or has no
\* templates and the fallback has at least one.
C13_BootstrapPrefersPrimary ==
    [][(call'.op = "bootstrap" /\ nOps' = nOps + 1)
           => /\ call'.arg.gm \in {gmStore, None}
              /\ call'.arg.ls = lsStore
              /\ (StoredTemplateCount(call'.arg.gm) > 0
                     => call'.arg.json = call'.arg.gm[1].text)
              /\ (StoredTemplateCount(call'.arg.gm) = 0
                     => IF StoredTemplateCount(lsStore) > 0
                        THEN call'.arg.json = lsStore[1].text
                        ELSE TemplatesOf(call'.arg.json) = <<>>)]_vars

C13_Witness ==
    /\ call.op = "bootstrap"
    /\ call.arg.gm # None
    /\ StoredTemplateCount(call.arg.gm) = 0
    /\ StoredTemplateCount(call.arg.ls) > 0
    /\ call.arg.json = call.arg.ls[1].text
    /\ Len(templatesArray) > 0

----------------------------------------------------------------------------
(* Import: decoding and pixel counts *)

\* Number of Templates of the array that came from the document key k
LoadedUnder(array, k) ==
    Cardinality({i \in 1..Len(array) : array[i].originKey = k})

\* C14: when importJSON accepts a document in which one tile fragment does
\* not decode, every template of the document whose fragments all decode is
\* still loaded into the array.
C14_CorruptFragmentIsContained ==
    [][(call'.op = "importJSON" /\ nOps' = nOps + 1 /\ call'.out.accepted)
           => \A k \in KeysOf(TemplatesOf(call'.arg.json)) :
                  (\A i \in 1..Len(EntryOf(TemplatesOf(call'.arg.json), k).tiles) :
                       EntryOf(TemplatesOf(call'.arg.json), k).tiles[i].buffer.png # None)
                      => LoadedUnder(templatesArray', k) = LoadedUnder(templatesArray, k) + 1]_vars

\* The bitmaps of an entry's tiles, decoded
DecodedTiles(entry) ==
    [i \in 1..Len(entry.tiles) |->
        [key |-> entry.tiles[i].key, bitmap |-> entry.tiles[i].buffer.png[1]]]

\* The entries of an imported document that the parser reaches: those up to
\* the first one with a fragment that does not decode
Reached(incoming) ==
    {j \in 1..Len(incoming) :
        \A h \in 1..j : \A i \in 1..Len(incoming[h].tiles) :
            incoming[h].tiles[i].buffer.png # None}

\* C15: for each template that importJSON loads: if its entry carries a
\* numeric pixelCount >= 0 the Template's pixelCount equals it; otherwise it
\* is the Reconstructor's result, or the number of fragments times 500 when
\* the reconstruction throws, and that value is in the template's entry of
\* the loaded document, when the loaded document's entry is the imported one.
C15_PixelCountResolution ==
    [][(call'.op = "importJSON" /\ nOps' = nOps + 1 /\ call'.out.accepted)
           => LET incoming == TemplatesOf(call'.arg.json)
                  old == TemplatesOf(templatesJSON)
                  new == TemplatesOf(templatesJSON')
              IN  \A j \in Reached(incoming) :
                      LET e == incoming[j]
                          t == templatesArray'[Len(templatesArray) + j]
                          isOurs == templatesJSON = Null \/ call'.arg.same
                                        \/ ~HasKey(old, e.key)
                      IN  /\ t.originKey = e.key
                          /\ IF e.pixelCount # None /\ e.pixelCount[1] >= 0
                             THEN /\ t.pixelCount = e.pixelCount[1]
                                  /\ isOurs => EntryOf(new, e.key).pixelCount = e.pixelCount
                             ELSE /\ t.pixelCount =
                                        IF call'.arg.canvasOK
                                        THEN computePixelCountFromTiles(DecodedTiles(e))
                                        ELSE Len(e.tiles) * 500
                                  /\ isOurs => EntryOf(new, e.key).pixelCount
                                                   = Some(t.pixelCount)]_vars

\* C15 witness: a document without persisted pixel counts was imported; one
\* of its templates got the reconstructed count 2 and the entry carries it.
C15_Witness ==
    /\ call.op = "importJSON"
    /\ call.out.accepted
    /\ call.arg.canvasOK
    /\ \E j \in 1..Len(TemplatesOf(call.arg.json)) :
           LET e == TemplatesOf(call.arg.json)[j]
           IN  /\ e.pixelCount = None
               /\ \E i \in 1..Len(templatesArray) :
                      /\ templatesArray[i].originKey = e.key
                      /\ templatesArray[i].pixelCount = 2
               /\ HasKey(TemplatesOf(templatesJSON), e.key)
               /\ EntryOf(TemplatesOf(templatesJSON), e.key).pixelCount = Some(2)

----------------------------------------------------------------------------
(* Chunking *)

\* Number of pixels of an image whose alpha is not zero
OpaquePixels(image) ==
    Cardinality({p \in (1..Len(image)) \X (1..Len(image[1])) : image[p[1]][p[2]] # 0})

\* C16: for any source image and anchor, the count the Reconstructor computes
\* from the Chunker's fragments equals the Chunker's totalPixelCount, which
\* is the number of source pixels of non-zero alpha.
C16_RoundTripPixelCount ==
    call.op = "computePixelCountFromTiles"
        => /\ call.out.reconstructed = call.out.totalPixelCount
           /\ call.out.totalPixelCount = OpaquePixels(call.arg.image)

\* C16 witness: an image with a transparent pixel that straddles two tiles
\* was chunked into two fragments and its three pixels were counted back.
C16_Witness ==
    /\ call.op = "computePixelCountFromTiles"
    /\ Len(call.out.templateTiles) = 2
    /\ OpaquePixels(call.arg.image) = 3
    /\ call.out.reconstructed = 3

\* The 2x2 fully opaque image anchored at global pixel (999, 999)
IsCornerScenario ==
    /\ call.op = "computePixelCountFromTiles"
    /\ call.arg.image = <<<<7, 7>>, <<7, 7>>>>
    /\ call.arg.coords = <<0, 0, 999, 999>>

FragmentKeys(tiles) == {tiles[i].key : i \in 1..Len(tiles)}

----------------------------------------------------------------------------
(* Bulk enablement *)

\* C17: after setAllTemplatesEnabled(enabled) every entry of the document
\* and every Template of the array has its enabled flag equal to the
\* argument, so that after setAllTemplatesEnabled(false) no template is
\* drawn on any tile.
C17_AllTemplatesGetTheFlag ==
    [][(call'.op = "setAllTemplatesEnabled" /\ nOps' = nOps + 1)
           => /\ \A i \in 1..Len(TemplatesOf(templatesJSON')) :
                     TemplatesOf(templatesJSON')[i].enabled = Some(call'.arg)
              /\ \A i \in 1..Len(templatesArray') :
                     templatesArray'[i].enabled = call'.arg
              /\ (call'.arg = FALSE
                     => \A tileCoords \in Tiles :
                            templatesToDraw(templatesArray', TilePrefix(tileCoords)) = <<>>)]_vars

----------------------------------------------------------------------------
(* Import of a document without identity *)

\* C18: importJSON of a document that has no whoami but has a templates map
\* is accepted, the script's name without whitespace is injected, and the
\* templates are loaded as they are for the same document carrying an
\* allow-listed whoami; a document with neither whoami nor templates is
\* rejected and changes nothing.
C18_UntaggedDocumentIsOurs ==
    [][(call'.op = "importJSON" /\ nOps' = nOps + 1 /\ call'.arg.json.whoami = None)
           => IF call'.arg.json.templates # None
              THEN LET tagged == [call'.arg.json EXCEPT !.whoami = Some("BlueMarble")]
                       r == importJSON(templatesJSON, templatesArray, tagged,
                                call'.arg.same, call'.arg.canvasOK)
                   IN  /\ call'.out.accepted
                       /\ templatesJSON = Null => templatesJSON'.whoami = Some("BluePeanits")
                       /\ templatesArray' = r.templatesArray
                       /\ TemplatesOf(templatesJSON') = TemplatesOf(r.templatesJSON)
              ELSE /\ ~call'.out.accepted
                   /\ UNCHANGED <<templatesJSON, templatesArray, gmStore, lsStore>>]_vars

\* C18 witness: a document without whoami was imported into a new Manager,
\* which now holds it under the injected identity with its two templates.
C18_Witness ==
    /\ call.op = "importJSON"
    /\ call.arg.json.whoami = None
    /\ call.out.accepted
    /\ templatesJSON # Null
    /\ templatesJSON.whoami = Some("BluePeanits")
    /\ Len(TemplatesOf(templatesJSON)) = 2
    /\ Len(templatesArray) = 2

----------------------------------------------------------------------------
(* Compositing is read-only *)

\* How many times the value x occurs in the sequence
Occurrences(array, x) == Cardinality({i \in 1..Len(array) : array[i] = x})

\* C20: drawTemplateOnTile leaves the document, the persisted data, the
\* membership of the array and every field of every Template unchanged, so
\* that what a call for any tile outputs is the same before and after it.
C20_DrawIsReadOnly ==
    [][(call'.op = "drawTemplateOnTile" /\ nOps' = nOps + 1)
           => /\ UNCHANGED <<templatesJSON, gmStore, lsStore>>
              /\ Len(templatesArray') = Len(templatesArray)
              /\ \A i \in 1..Len(templatesArray) :
                     Occurrences(templatesArray', templatesArray[i])
                         = Occurrences(templatesArray, templatesArray[i])
              /\ \A tileCoords \in Tiles :
                     drawTemplateOnTile(templatesArray', LiveTile, tileCoords).image
                         = drawTemplateOnTile(templatesArray, LiveTile, tileCoords).image]_vars

\* C20 witness: a tile was composited from an array of at least two
\* Templates, one of them disabled, and at least one was drawn.
C20_Witness ==
    /\ call.op = "drawTemplateOnTile"
    /\ call.out.templateCount >= 1
    /\ Len(templatesArray) >= 2
    /\ \E i \in 1..Len(templatesArray) : ~templatesArray[i].enabled

----------------------------------------------------------------------------
(* Validation failures of updateTemplateCoordinates *)

\* C22: whenever updateTemplateCoordinates throws a validation error, the
\* document (whether one is loaded included), the in-memory array and both
\* persistence sinks are exactly as before the call.
C22_ValidationErrorMutatesNothing ==
    [][(/\ call'.op = "updateTemplateCoordinates"
        /\ nOps' = nOps + 1
        /\ call'.out.error # None)
           => UNCHANGED <<templatesJSON, templatesArray, gmStore, lsStore>>]_vars

----------------------------------------------------------------------------
(* A tile no template has a fragment for *)

\* Whether an enabled template of the array has a fragment in the tile
SomeEnabledFragmentIn(array, tileCoords) ==
    \E i \in 1..Len(array) : array[i].enabled /\ HasFragmentIn(array[i], tileCoords)

----------------------------------------------------------------------------
(* Persistence of an import *)

\* C24: when an importJSON call that changed an already loaded document
\* (added templates to it, or wrote a reconstructed pixelCount into it)
\* completes, the primary and the fallback store hold the serialization of
\* the resulting in-memory document.
C24_ImportPersists ==
    [][(/\ call'.op = "importJSON"
        /\ nOps' = nOps + 1
        /\ call'.out.accepted
        /\ templatesJSON # Null
        /\ templatesJSON' # templatesJSON)
           => /\ gmStore' = Some(storeTemplates(templatesJSON'))
              /\ lsStore' = Some(storeTemplates(templatesJSON'))]_vars

----------------------------------------------------------------------------
(* Agreement of the document and the array *)

\* The operations C25 quantifies over
CollectionOps ==
    {"createTemplate", "deleteTemplate", "toggleTemplate", "updateTemplateName",
     "updateTemplateCoordinates", "importJSON"}

\* The enabled flag an entry of the document stands for (absent means enabled)
EntryEnabled(entry) == IF entry.enabled = None THEN TRUE ELSE entry.enabled[1]

\* The document and the array describe the same collection
SameCollection(json, array) ==
    /\ \A k \in KeysOf(TemplatesOf(json)) :
           /\ Cardinality({i \in 1..Len(array) : KeyOfTemplate(array[i]) = k}) = 1
           /\ \A i \in 1..Len(array) :
                  KeyOfTemplate(array[i]) = k
                      => array[i].enabled = EntryEnabled(EntryOf(TemplatesOf(json), k))
    /\ \A i \in 1..Len(array) : KeyOfTemplate(array[i]) \in KeysOf(TemplatesOf(json))

\* C25: in every state reached by createTemplate, deleteTemplate,
\* toggleTemplate, updateTemplateName, updateTemplateCoordinates and
\* importJSON calls, each document key corresponds to exactly one Template of
\* the array with that composite key and the same enabled flag, and each
\* Template of the array corresponds to a document key.
C25_DocumentAndArrayAgree ==
    opsUsed \subseteq CollectionOps => SameCollection(templatesJSON, templatesArray)

----------------------------------------------------------------------------
(* Identity of imported Templates *)

\* C26: every Template that importJSON builds has the sortID and authorID
\* parsed from its composite key, whatever the key (sortID 0 included) and
\* whatever the array already holds, so that an operation called with that
\* key finds that Template.
C26_ImportedIdentityIsTheKey ==
    [][(call'.op = "importJSON" /\ nOps' = nOps + 1 /\ call'.out.accepted)
           => \A i \in (Len(templatesArray) + 1)..Len(templatesArray') :
                  LET key == templatesArray'[i].originKey
                      parts == Split(key, " ")
                  IN  /\ Some(templatesArray'[i].sortID) = ToNumber(At(parts, 0))
                      /\ Some(templatesArray'[i].authorID) = At(parts, 1)
                      /\ MatchesKey(templatesArray'[i], key)]_vars

----------------------------------------------------------------------------
(* Frame of a coordinate update *)

\* What a tile request outputs: the image and the counts of the status
TileOutput(array, tileCoords) ==
    LET r == drawTemplateOnTile(array, LiveTile, tileCoords)
    IN  [image |-> r.image, templateCount |-> r.templateCount, totalPixels |-> r.totalPixels]

\* C30: a successful updateTemplateCoordinates(key, newCoords) on a template
\* of the document changes only the coords of that entry and of the matching
\* Template; fragment keys and bitmaps are unchanged, so for every tile the
\* output of drawTemplateOnTile is the same before and after the update.
C30_OnlyCoordsChange ==
    [][(/\ call'.op = "updateTemplateCoordinates"
        /\ nOps' = nOps + 1
        /\ call'.out.error = None
        /\ templatesJSON # Null
        /\ HasKey(TemplatesOf(templatesJSON), call'.key))
           => LET before == TemplatesOf(templatesJSON)
                  after == TemplatesOf(templatesJSON')
                  numbers == [k \in 1..4 |-> call'.arg[k][1]]
              IN  /\ templatesJSON' = WithTemplates(templatesJSON, after)
                  /\ Len(after) = Len(before)
                  /\ \A k \in 1..Len(before) :
                         IF before[k].key = call'.key
                         THEN after[k] = [before[k] EXCEPT
                                             !.coords = Join(numbers, CommaSpace)]
                         ELSE after[k] = before[k]
                  /\ Len(templatesArray') = Len(templatesArray)
                  /\ \A i \in 1..Len(templatesArray) :
                         \/ templatesArray'[i] = templatesArray[i]
                         \/ /\ MatchesKey(templatesArray[i], call'.key)
                            /\ templatesArray'[i]
                                   = [templatesArray[i] EXCEPT !.coords = Some(numbers)]
                  /\ Cardinality({i \in 1..Len(templatesArray) :
                                     templatesArray'[i] # templatesArray[i]}) <= 1
                  /\ \A tileCoords \in Tiles :
                         TileOutput(templatesArray', tileCoords)
                             = TileOutput(templatesArray, tileCoords)]_vars

\* C30 witness: a template that has fragments was moved to new coordinates,
\* which its Template and its document entry now hold.
C30_Witness ==
    /\ call.op = "updateTemplateCoordinates"
    /\ call.out.error = None
    /\ templatesJSON # Null
    /\ HasKey(TemplatesOf(templatesJSON), call.key)
    /\ EntryOf(TemplatesOf(templatesJSON), call.key).coords
           = Join(<<1, 0, 5, 0>>, CommaSpace)
    /\ \E i \in 1..Len(templatesArray) :
           /\ MatchesKey(templatesArray[i], call.key)
           /\ templatesArray[i].coords = Some(<<1, 0, 5, 0>>)
           /\ templatesArray[i].chunked # <<>>
           /\ \E tileCoords \in Tiles : HasFragmentIn(templatesArray[i], tileCoords)

----------------------------------------------------------------------------
(* Create, persist, restart under any userscript name *)

MaxNameWords == 3

NameWords == {"Blue", "Peanits"}

RECURSIVE WordsToName(_)
\* The words of a name separated by single spaces
WordsToName(words) ==
    IF Len(words) <= 1 THEN words
    ELSE <<Head(words), " ">> \o WordsToName(Tail(words))

\* Userscript names of up to MaxNameWords words
ScriptNames ==
    UNION {{WordsToName(w) : w \in [1..n -> NameWords]} : n \in 1..MaxNameWords}

\* A Manager constructed with any of the names, nothing stored
InitIdentity ==
    /\ templatesJSON = Null
    /\ templatesArray = <<>>
    /\ gmStore = None
    /\ lsStore = None
    /\ assigned = {}
    /\ importHistory = [only |-> TRUE, times |-> 0]
    /\ opsUsed = {}
    /\ call = [op |-> "constructor", key |-> <<>>, arg |-> <<>>, out |-> <<>>]
    /\ fallback = "none"
    /\ nOps = 0
    /\ faults = 0
    /\ nEdits = 0
    /\ inFlight = <<>>
    /\ name \in ScriptNames

NextIdentity ==
    \/ CreateTemplate
    \/ Bootstrap

SpecIdentity == InitIdentity /\ [][NextIdentity]_vars

\* C29: for every userscript name, a document this Manager created and
\* persisted is accepted by the bootstrap importJSON of a Manager
\* constructed with the same name, which restores the created templates.
C29_OwnDocumentIsAccepted ==
    [][(/\ call'.op = "bootstrap"
        /\ nOps' = nOps + 1
        /\ HasTemplates(call'.arg.json))
           => /\ call'.out.accepted
              /\ templatesJSON' = call'.arg.json
              /\ Len(templatesArray') = Len(TemplatesOf(call'.arg.json))]_vars

----------------------------------------------------------------------------
(* createTemplate calls in flight at the same time *)

\* A sequence without its i-th element
RemoveAt(seq, i) == SubSeq(seq, 1, i - 1) \o SubSeq(seq, i + 1, Len(seq))

\* createTemplate up to its await of createTemplateTiles: the document is
\* ensured and the Template is constructed, sortID included
createTemplate_Begin(json0, image, displayName, coords) ==
    LET json == EnsureJSON(json0)
        sortID == Len(TemplatesOf(json))
        authorID == numberToEncoded(UserNumber, encodingBase)
    IN  [templatesJSON |-> json,
         pending |-> [op       |-> "createTemplate",
                      template |-> Template(displayName, sortID, authorID, TRUE,
                                       Some(coords), CompositeKey(sortID, authorID)),
                      image    |-> image,
                      coords   |-> coords]]

\* createTemplate from the moment createTemplateTiles resolves: the entry is
\* written under the Template's key and the Template is pushed
createTemplate_Resume(json, array, pending) ==
    LET chunks == createTemplateTiles(pending.image, pending.coords)
        template == [pending.template EXCEPT !.chunked = chunks.templateTiles,
                                             !.pixelCount = chunks.totalPixelCount]
        key == CompositeKey(template.sortID, template.authorID)
        entry == [key        |-> key,
                  name       |-> template.displayName,
                  coords     |-> Join(pending.coords, CommaSpace),
                  enabled    |-> Some(TRUE),
                  tiles      |-> templateTilesBuffers(chunks.templateTiles),
                  pixelCount |-> Some(template.pixelCount)]
    IN  [templatesJSON  |-> WithTemplates(json, SetEntry(TemplatesOf(json), key, entry)),
         templatesArray |-> Append(array, template),
         sortID         |-> template.sortID,
         key            |-> key]

\* The Create button calls createTemplate without awaiting it (main.js:762):
\* the call runs to its first real suspension
CreateTemplateBegins ==
    /\ nOps + Len(inFlight) < MaxOps
    /\ \E image \in Images, displayName \in CreateNames, coords \in CreateCoords :
        \E r \in {createTemplate_Begin(templatesJSON, image, displayName, coords)} :
            /\ templatesJSON' = r.templatesJSON
            /\ inFlight' = Append(inFlight, r.pending)
            /\ UNCHANGED <<templatesArray, gmStore, lsStore, assigned, importHistory,
                           opsUsed, call, fallback, nOps, faults, nEdits, name>>

\* The chunking of one of the suspended calls resolves and the call runs to
\* its end
CreateTemplateFinishes ==
    \E i \in 1..Len(inFlight), setItemThrows \in Failing :
        \E r \in {createTemplate_Resume(templatesJSON, templatesArray, inFlight[i])} :
            /\ inFlight[i].op = "createTemplate"
            /\ templatesJSON' = r.templatesJSON
            /\ templatesArray' = r.templatesArray
            /\ Store(r.templatesJSON, setItemThrows)
            /\ assigned' = assigned \cup {r.sortID}
            /\ importHistory' = [only |-> FALSE, times |-> 0]
            /\ inFlight' = RemoveAt(inFlight, i)
            /\ Record("createTemplate", r.key,
                      [image |-> inFlight[i].image, name |-> inFlight[i].template.displayName,
                       coords |-> inFlight[i].coords],
                      [sortID |-> r.sortID])

NextCreate ==
    \/ CreateTemplateBegins
    \/ CreateTemplateFinishes

SpecCreate == Init /\ [][NextCreate]_vars

\* A call that finishes with the document as it was when the call began
\* has the effect of the whole createTemplate.
CreateTemplateAloneIsWhole ==
    [][(/\ nOps' = nOps + 1
        /\ Len(inFlight) = 1
        /\ inFlight[1].template.sortID = Len(TemplatesOf(templatesJSON)))
           => LET whole == CreateTemplateEffect(templatesJSON, templatesArray,
                               inFlight[1].image, inFlight[1].template.displayName,
                               inFlight[1].coords)
              IN  /\ templatesJSON' = whole.templatesJSON
                  /\ templatesArray' = whole.templatesArray]_vars

\* C27: createTemplate calls by the same user that were in flight at the
\* same time end with distinct composite keys and one document entry each:
\* once no call is in flight, the document has as many entries as calls
\* completed and no two Templates share a composite key.
C27_ConcurrentCreatesKeepBoth ==
    (inFlight = <<>> /\ nOps >= 2)
        => /\ Len(TemplatesOf(templatesJSON)) = nOps
           /\ \A i, j \in 1..Len(templatesArray) :
                  i # j => KeyOfTemplate(templatesArray[i]) # KeyOfTemplate(templatesArray[j])

----------------------------------------------------------------------------
(* drawTemplateOnTile suspended while the collection changes *)

\* drawTemplateOnTile up to its await of createImageBitmap(tileBlob): the
\* array is sorted in place, the list of fragments to draw is built and the
\* status is displayed
drawTemplateOnTile_Begin(array, tileBlob, tileCoords) ==
    LET prefix == TilePrefix(tileCoords)
        templateArray == SortBySortID(array)
        items == templatesToDraw(templateArray, prefix)
    IN  [templateArray |-> templateArray,
         pending |-> [op            |-> "drawTemplateOnTile",
                      tileBlob      |-> tileBlob,
                      tileCoords    |-> tileCoords,
                      templatesToDraw |-> items,
                      templateCount |-> Len(items),
                      totalPixels   |-> IF Len(items) > 0
                                        THEN Some(totalPixels(templateArray, prefix))
                                        ELSE None,
                      atCall        |-> array]]

\* Mutant of drawTemplateOnTile_Resume: the list of fragments is built from
\* the array as it is when the call resumes
drawTemplateOnTile_ResumeRereads(pending, array) ==
    LET drawSize == tileSize * drawMult
        items == templatesToDraw(SortBySortID(array), TilePrefix(pending.tileCoords))
    IN  [items         |-> items,
         templateCount |-> Len(items),
         totalPixels   |-> pending.totalPixels,
         image         |-> [base    |-> pending.tileBlob,
                            size    |-> drawSize,
                            overlay |-> DrawAll(items, 1, <<>>, drawSize)]]

\* drawTemplateOnTile from the moment the live tile is decoded: the tile and
\* then the fragments listed before the await are drawn; array is
\* this.templatesArray at that moment, which the code does not read again
drawTemplateOnTile_Resume(pending, array) ==
    LET drawSize == tileSize * drawMult
    IN  [items         |-> pending.templatesToDraw,
         templateCount |-> pending.templateCount,
         totalPixels   |-> pending.totalPixels,
         image         |-> [base    |-> pending.tileBlob,
                            size    |-> drawSize,
                            overlay |-> DrawAll(pending.templatesToDraw, 1, <<>>, drawSize)]]

\* A live tile arrives and drawTemplateOnTile runs to its first await
DrawTemplateOnTileBegins ==
    /\ nOps < MaxOps
    /\ inFlight = <<>>
    /\ \E tileCoords \in Tiles :
        \E r \in {drawTemplateOnTile_Begin(templatesArray, LiveTile, tileCoords)} :
            /\ templatesArray' = r.templateArray
            /\ inFlight' = <<r.pending>>
            /\ UNCHANGED <<templatesJSON, gmStore, lsStore, assigned, importHistory,
                           opsUsed, call, fallback, nOps, faults, nEdits, name>>

\* The live tile is decoded and the suspended drawTemplateOnTile runs to its end
DrawTemplateOnTileFinishes ==
    /\ inFlight # <<>>
    /\ inFlight[1].op = "drawTemplateOnTile"
    /\ \E r \in {drawTemplateOnTile_Resume(inFlight[1], templatesArray)} :
           /\ inFlight' = <<>>
           /\ NoStore
           /\ Failed(0)
           /\ UNCHANGED <<templatesJSON, templatesArray, assigned>>
           /\ importHistory' = [only |-> FALSE, times |-> 0]
           /\ Record("drawTemplateOnTile", <<>>, inFlight[1].tileCoords, r)

\* The handlers that may run while a draw is suspended, here without
\* failures of the environment and importing well-formed documents
NextDraw ==
    \/ DrawTemplateOnTileBegins
    \/ DrawTemplateOnTileFinishes
    \/ (CreateTemplate /\ faults' = faults)
    \/ (DeleteTemplate /\ faults' = faults)
    \/ (ToggleTemplate /\ faults' = faults)
    \/ (ImportJSON /\ faults' = faults /\ call'.arg.json \in {DocLegacy, DocUntagged})

SpecDraw == Init /\ [][NextDraw]_vars

\* C28: whatever deleteTemplate, toggleTemplate, createTemplate or
\* importJSON steps run while drawTemplateOnTile is suspended decoding the
\* live tile, the fragments it draws and the counts it reports are those of
\* the templates enabled and matching at the moment of the call, each
\* fragment whole, and the call completes.
C28_DrawHasSnapshotSemantics ==
    [][(call'.op = "drawTemplateOnTile" /\ nOps' = nOps + 1)
           => LET atCall == drawTemplateOnTile(inFlight[1].atCall, LiveTile, call'.arg)
              IN  /\ call'.out.items = atCall.items
                  /\ call'.out.templateCount = atCall.templateCount
                  /\ call'.out.totalPixels = atCall.totalPixels
                  /\ call'.out.image = atCall.image]_vars

\* C28 witness: a draw completed with at least one fragment although the
\* collection was changed while it was suspended: on the array as it is now
\* the same tile would get another image.
C28_Witness ==
    /\ call.op = "drawTemplateOnTile"
    /\ inFlight = <<>>
    /\ call.out.templateCount >= 1
    /\ drawTemplateOnTile(templatesArray, LiveTile, call.arg).image # call.out.image

----------------------------------------------------------------------------
(* Start of the script: the bootstrap import and the tile listener *)

\* Documents an earlier session persisted: one or two created templates
PersistedDocs ==
    LET one(image) ==
            CreateTemplateEffect(Null, <<>>, image, "art", <<0, 0, 999, 0>>).templatesJSON
        two(first, second) ==
            CreateTemplateEffect(one(first), <<>>, second, "art",
                <<0, 0, 999, 0>>).templatesJSON
    IN  {one(image) : image \in Images}
            \cup {two(pair[1], pair[2]) : pair \in Images \X Images}

\* The page loads with a persisted document in both stores
InitStartup ==
    /\ name = ScriptName
    /\ templatesJSON = Null
    /\ templatesArray = <<>>
    /\ \E doc \in PersistedDocs :
           /\ gmStore = Some(storeTemplates(doc))
           /\ lsStore = Some(storeTemplates(doc))
    /\ assigned = {}
    /\ importHistory = [only |-> TRUE, times |-> 0]
    /\ opsUsed = {}
    /\ call = [op |-> "constructor", key |-> <<>>, arg |-> <<>>, out |-> <<>>]
    /\ fallback = "none"
    /\ nOps = 0
    /\ faults = 0
    /\ nEdits = 0
    /\ inFlight = <<>>

\* main.js reads the stores and calls importJSON without awaiting it: the
\* call runs until #parseBlueMarble awaits the decoding of the first tile
BootstrapImportBegins ==
    /\ call.op = "constructor"
    /\ \E json \in {storageTemplates(gmStore, lsStore)} :
           /\ IsAccepted(InjectWhoami(json))
           /\ HasTemplates(json)
           /\ templatesJSON' = InjectWhoami(json)
           /\ inFlight' = <<[op |-> "importJSON", json |-> InjectWhoami(json), template |-> 1]>>
           /\ NoStore
           /\ Failed(0)
           /\ UNCHANGED <<templatesArray, assigned, importHistory>>
           /\ Record("bootstrap", <<>>, [gm |-> gmStore, ls |-> lsStore, json |-> json],
                     [accepted |-> TRUE, threw |-> FALSE])

\* The script goes on synchronously to register the listener that hands
\* every live tile to drawTemplateOnTile
SpontaneousResponseListener ==
    /\ call.op = "bootstrap"
    /\ call' = [op |-> "spontaneousResponseListener", key |-> <<>>, arg |-> <<>>,
                out |-> <<>>]
    /\ UNCHANGED <<templatesJSON, templatesArray, gmStore, lsStore, assigned,
                   importHistory, opsUsed, fallback, nOps, faults, nEdits, inFlight, name>>

\* The tiles of the template the suspended #parseBlueMarble is at are
\* decoded: its Template is pushed, and the loop goes on to the next
\* template or ends
ImportDecodes ==
    /\ call.op # "bootstrap"
    /\ inFlight # <<>>
    /\ inFlight[1].op = "importJSON"
    /\ LET templates == TemplatesOf(inFlight[1].json)
           entry == templates[inFlight[1].template]
       IN  /\ EntryDecodes(entry)
           /\ templatesArray' = Append(templatesArray,
                                    ParsedTemplate(entry, templatesArray, TRUE))
           /\ inFlight' = IF inFlight[1].template = Len(templates) THEN <<>>
                          ELSE <<[inFlight[1] EXCEPT !.template = @ + 1]>>
    /\ UNCHANGED <<templatesJSON, gmStore, lsStore, assigned, importHistory, opsUsed,
                   call, fallback, nOps, faults, nEdits, name>>

\* A live tile reaches the listener
TileDelivered ==
    /\ call.op \in {"spontaneousResponseListener", "drawTemplateOnTile"}
    /\ DrawTemplateOnTile

NextStartup ==
    \/ BootstrapImportBegins
    \/ SpontaneousResponseListener
    \/ ImportDecodes
    \/ TileDelivered

SpecStartup == InitStartup /\ [][NextStartup]_vars

\* The number of enabled templates of a document with a fragment in the tile
StoredMatching(doc, tileCoords) ==
    Cardinality({i \in 1..Len(TemplatesOf(doc)) :
        /\ EntryEnabled(TemplatesOf(doc)[i])
        /\ \E k \in 1..Len(TemplatesOf(doc)[i].tiles) :
               StartsWith(TemplatesOf(doc)[i].tiles[k].key, TilePrefix(tileCoords))})

\* C21: no live tile is passed through drawTemplateOnTile before the
\* bootstrap importJSON has loaded every stored template, so every tile is
\* returned with the fragment of each stored enabled template that has one
\* in it.
C21_ImportedBeforeInterception ==
    call.op = "drawTemplateOnTile"
        => call.out.templateCount = StoredMatching(ParseStored(gmStore), call.arg)

\* Once the import has finished, the tiles do get every stored fragment.
AfterImportTilesAreComplete ==
    [][(call'.op = "drawTemplateOnTile" /\ nOps' = nOps + 1 /\ inFlight = <<>>)
           => call'.out.templateCount
                  = StoredMatching(ParseStored(gmStore), call'.arg)]_vars

====
